---- MODULE Spec2Model ----
(***************************************************************************)
(* msbc: a one-shot pipeline that fetches a base64 list of proxy URIs,     *)
(* parses the trojan ones, deduplicates them by host:port, groups them by  *)
(* region, synthesizes urltest/selector outbounds, merges region keys into *)
(* a selector template and publishes the files.  Model of src/main.go.     *)
(*                                                                         *)
(* Strings are sequences of one-character strings.  "*" stands for a rune  *)
(* of Unicode category So (an emoji), " " for white space.                 *)
(***************************************************************************)
EXTENDS Integers, Sequences, FiniteSets, TLC

VARIABLES pc, cause, body, template, results, outbounds, indexMap,
          regionTags, regionIndex, regionOrder, pending, groupOutbounds,
          selectors, config, published

vars == <<pc, cause, body, template, results, outbounds, indexMap,
          regionTags, regionIndex, regionOrder, pending, groupOutbounds,
          selectors, config, published>>

-----------------------------------------------------------------------------
(* Bounds of the model.                                                    *)

\* longest decoded body, in lines, of the pipeline specification
MaxLines == 3

\* longest template, in entries, of the merge specification
MaxEntries == 2

-----------------------------------------------------------------------------
(* Strings.                                                                *)

Range(s) == {s[k] : k \in DOMAIN s}

\* unicode.IsSpace
IsSpace(c) == c = " "

\* unicode.Is(unicode.So, r)
IsSymbol(c) == c = "*"

\* strings.TrimSpace
RECURSIVE TrimSpace(_)
TrimSpace(s) ==
    IF s = <<>> THEN s
    ELSE IF IsSpace(Head(s)) THEN TrimSpace(Tail(s))
    ELSE IF IsSpace(s[Len(s)]) THEN TrimSpace(SubSeq(s, 1, Len(s) - 1))
    ELSE s

\* strings.Map with the rune dropped when it is a symbol
removeEmoji(s) == SelectSeq(s, LAMBDA c : ~IsSymbol(c))

\* strings.Fields: the maximal runs of non-space characters
RECURSIVE FieldsFrom(_, _, _)
FieldsFrom(s, cur, acc) ==
    IF s = <<>> THEN (IF cur = <<>> THEN acc ELSE Append(acc, cur))
    ELSE IF IsSpace(Head(s))
         THEN FieldsFrom(Tail(s), <<>>, IF cur = <<>> THEN acc ELSE Append(acc, cur))
         ELSE FieldsFrom(Tail(s), Append(cur, Head(s)), acc)

Fields(s) == FieldsFrom(s, <<>>, <<>>)

\* strings.Join
RECURSIVE Join(_, _)
Join(elems, sep) ==
    IF elems = <<>> THEN <<>>
    ELSE IF Len(elems) = 1 THEN elems[1]
    ELSE elems[1] \o sep \o Join(Tail(elems), sep)

Digits == <<"0", "1", "2", "3", "4", "5", "6", "7", "8", "9">>

IsDigit(c) == \E d \in DOMAIN Digits : Digits[d] = c

DigitValue(c) == (CHOOSE d \in DOMAIN Digits : Digits[d] = c) - 1

\* strconv.Itoa on a non-negative int
RECURSIVE Itoa(_)
Itoa(n) ==
    IF n < 10 THEN <<Digits[n + 1]>>
    ELSE Append(Itoa(n \div 10), Digits[(n % 10) + 1])

\* strconv.Atoi on a string: [err, val].  Any non-digit is a syntax error
\* (a sign never reaches it: url.Parse accepts digits only in a port).
RECURSIVE AtoiFrom(_, _)
AtoiFrom(s, acc) ==
    IF s = <<>> THEN [err |-> FALSE, val |-> acc]
    ELSE IF ~IsDigit(Head(s)) THEN [err |-> TRUE, val |-> 0]
    ELSE AtoiFrom(Tail(s), acc * 10 + DigitValue(Head(s)))

Atoi(s) == IF s = <<>> THEN [err |-> TRUE, val |-> 0] ELSE AtoiFrom(s, 0)

-----------------------------------------------------------------------------
(* The URI parser.                                                         *)

\* A line of the decoded body, already split into the components url.Parse
\* finds in it.  kind "blank" is a line that is empty once trimmed, kind
\* "malformed" one url.Parse rejects (a bad escape, a port that is not a
\* number, ...).
Line(kind, scheme, user, host, port, insecure, sni, frag) ==
    [kind |-> kind, scheme |-> scheme, user |-> user, host |-> host,
     port |-> port, insecure |-> insecure, sni |-> sni, frag |-> frag]

\* url.Parse
UrlParse(line) ==
    IF line.kind = "malformed" THEN [err |-> TRUE]
    ELSE [err |-> FALSE, u |-> line]

NoOutbound == [Type |-> "none"]

\* the struct literal and the three TLS assignments
TrojanOutbound(tag, host, port, password, sni, allowInsecure) ==
    [Type |-> "trojan", Tag |-> tag, Server |-> host, ServerPort |-> port,
     Password |-> password,
     TLS |-> [Enabled |-> TRUE, ServerName |-> sni, Insecure |-> allowInsecure]]

\* parseTrojanURL without its scheme check
parseTrojanURLAnyScheme(raw) ==
    LET p == UrlParse(raw) IN
    IF p.err THEN [ob |-> NoOutbound, err |-> TRUE]
    ELSE IF p.u.port = <<>> THEN [ob |-> NoOutbound, err |-> p.err]
    ELSE LET a == Atoi(p.u.port) IN
         IF a.err THEN [ob |-> NoOutbound, err |-> TRUE]
         ELSE [ob |-> TrojanOutbound(TrimSpace(removeEmoji(TrimSpace(p.u.frag))),
                                     p.u.host, a.val, p.u.user, p.u.sni,
                                     p.u.insecure = "1"),
               err |-> FALSE]

\* parseTrojanURL: [ob, err] with ob = NoOutbound for Go's nil
parseTrojanURL(raw) ==
    LET p == UrlParse(raw) IN
    IF p.err THEN [ob |-> NoOutbound, err |-> TRUE]
    ELSE IF p.u.scheme # "trojan" THEN [ob |-> NoOutbound, err |-> FALSE]
    ELSE IF p.u.port = <<>> THEN [ob |-> NoOutbound, err |-> p.err]
    ELSE LET a == Atoi(p.u.port) IN
         IF a.err THEN [ob |-> NoOutbound, err |-> TRUE]
         ELSE [ob |-> TrojanOutbound(TrimSpace(removeEmoji(TrimSpace(p.u.frag))),
                                     p.u.host, a.val, p.u.user, p.u.sni,
                                     p.u.insecure = "1"),
               err |-> FALSE]

\* outboundKey
outboundKey(server, port) == server \o <<":">> \o Itoa(port)

\* extractRegion
extractRegion(tag) ==
    LET fields == Fields(tag) IN
    IF Len(fields) <= 1 THEN tag
    ELSE Join(SubSeq(fields, 1, Len(fields) - 1), <<" ">>)

-----------------------------------------------------------------------------
(* The endpoint registry (main, the loop over the decoded lines).          *)

EmptyMap == [k \in {} |-> 0]

\* RegistryPut that leaves the first record of a key in place
RegistryPutKeepFirst(obs, idx, ob) ==
    LET key == outboundKey(ob.Server, ob.ServerPort) IN
    IF key \in DOMAIN idx
    THEN [outbounds |-> obs, indexMap |-> idx]
    ELSE [outbounds |-> Append(obs, ob),
          indexMap |-> (key :> Len(obs)) @@ idx]

\* RegistryPut that appends whether or not the key is known
RegistryPutAppend(obs, idx, ob) ==
    LET key == outboundKey(ob.Server, ob.ServerPort) IN
    [outbounds |-> Append(obs, ob),
     indexMap |-> (key :> Len(obs)) @@ idx]

\* the if/else on indexMap: replace in place, or record the index and append
\* (Go's index k is position k + 1 here)
RegistryPut(obs, idx, ob) ==
    LET key == outboundKey(ob.Server, ob.ServerPort) IN
    IF key \in DOMAIN idx
    THEN [outbounds |-> [obs EXCEPT ![idx[key] + 1] = ob], indexMap |-> idx]
    ELSE [outbounds |-> Append(obs, ob),
          indexMap |-> (key :> Len(obs)) @@ idx]

\* what one iteration of the loop made of its line
LineResult(line) ==
    IF line.kind = "blank" THEN [out |-> "blank", ob |-> NoOutbound]
    ELSE LET r == parseTrojanURL(line) IN
         IF r.err THEN [out |-> "failure", ob |-> NoOutbound]
         ELSE IF r.ob = NoOutbound THEN [out |-> "ignored", ob |-> NoOutbound]
         ELSE [out |-> "record", ob |-> r.ob]

-----------------------------------------------------------------------------
(* The region classifier.                                                  *)

\* the loop over outbounds that fills regionTags, regionIndex, regionOrder
RECURSIVE ClassifyFrom(_, _)
ClassifyFrom(obs, st) ==
    IF obs = <<>> THEN st
    ELSE LET tag == Head(obs).Tag
             region == extractRegion(tag)
             known == region \in DOMAIN st.regionIndex
             order == IF known THEN st.regionOrder ELSE Append(st.regionOrder, region)
             index == IF known THEN st.regionIndex
                      ELSE (region :> Len(st.regionOrder)) @@ st.regionIndex
             tags == IF region \in DOMAIN st.regionTags
                     THEN [st.regionTags EXCEPT ![region] = Append(@, tag)]
                     ELSE (region :> <<tag>>) @@ st.regionTags
         IN ClassifyFrom(Tail(obs),
                         [regionTags |-> tags, regionIndex |-> index, regionOrder |-> order])

\* the inner loop of the post-step: the first outbound whose tag is originalTag
\* gets the region as its tag
RenameFirst(obs, originalTag, region) ==
    LET hits == {k \in DOMAIN obs : obs[k].Tag = originalTag} IN
    IF hits = {} THEN obs
    ELSE LET first == CHOOSE k \in hits : \A j \in hits : k <= j
         IN [obs EXCEPT ![first].Tag = region]

-----------------------------------------------------------------------------
(* The group synthesizer.                                                  *)

GroupOutbound(type, tag, members, interrupt) ==
    [Type |-> type, Tag |-> tag, Outbounds |-> members,
     InterruptExistConnections |-> interrupt]

AutoSuffix == <<"-", "a", "u", "t", "o">>

\* SynthesizeGroups whose selector does not name its urltest
RECURSIVE SynthesizeGroupsNoAuto(_, _)
SynthesizeGroupsNoAuto(order, tagsOf) ==
    IF order = <<>> THEN <<>>
    ELSE LET region == Head(order)
             tags == tagsOf[region]
             autoTag == region \o AutoSuffix
             rest == SynthesizeGroupsNoAuto(Tail(order), tagsOf)
         IN IF Len(tags) <= 1 THEN rest
            ELSE <<GroupOutbound("urltest", autoTag, tags, FALSE),
                   GroupOutbound("selector", region, tags, TRUE)>> \o rest

\* the loop over regionOrder that builds groupOutbounds
RECURSIVE SynthesizeGroups(_, _)
SynthesizeGroups(order, tagsOf) ==
    IF order = <<>> THEN <<>>
    ELSE LET region == Head(order)
             tags == tagsOf[region]
             autoTag == region \o AutoSuffix
             rest == SynthesizeGroups(Tail(order), tagsOf)
         IN IF Len(tags) <= 1 THEN rest
            ELSE <<GroupOutbound("urltest", autoTag, tags, FALSE),
                   GroupOutbound("selector", region, <<autoTag>> \o tags, TRUE)>> \o rest

-----------------------------------------------------------------------------
(* The template merger.                                                    *)

\* appendUnique
RECURSIVE appendUniqueFrom(_, _, _)
appendUniqueFrom(dst, src, seen) ==
    IF src = <<>> THEN dst
    ELSE IF Head(src) \in seen THEN appendUniqueFrom(dst, Tail(src), seen)
    ELSE appendUniqueFrom(Append(dst, Head(src)), Tail(src), seen \cup {Head(src)})

\* appendUnique without its seen set
appendAll(dst, src) == dst \o src

appendUnique(dst, src) == appendUniqueFrom(dst, src, Range(dst))

\* config/selectors.scheme.json: there or not, and its entries
NoTemplate == [exists |-> FALSE, entries |-> <<>>]

TemplateOf(entries) == [exists |-> TRUE, entries |-> entries]

\* A template entry as it stands in the file: its type, its tag, its member
\* list and whatever other fields it has.
Entry(type, tag, members, extra) ==
    [raw |-> TRUE, type |-> type, tag |-> tag, outbounds |-> members, extra |-> extra]

\* loadSelectors, one entry: a selector is decoded into a SelectorOutbound
\* (type, tag, outbounds: its other fields are not kept), anything else stays
\* the raw message
LoadEntry(e) ==
    IF e.type # "selector" THEN e
    ELSE [raw |-> FALSE, type |-> e.type, tag |-> e.tag, outbounds |-> e.outbounds,
          extra |-> "none"]

\* loadSelectors on a readable, well-formed file, or on a missing one
loadSelectors(file) ==
    IF ~file.exists THEN <<>>
    ELSE [k \in DOMAIN file.entries |-> LoadEntry(file.entries[k])]

\* MergeSelectors that extends the raw entries too
MergeSelectorsAll(sels, order) ==
    [k \in DOMAIN sels |-> [sels[k] EXCEPT !.outbounds = appendUnique(@, order)]]

\* the loop over selectors: the type assertion fails on a raw message
MergeSelectors(sels, order) ==
    [k \in DOMAIN sels |->
        IF sels[k].raw THEN sels[k]
        ELSE [sels[k] EXCEPT !.outbounds = appendUnique(@, order)]]

-----------------------------------------------------------------------------
(* The files.  A file is "absent", "old" (as the run found it), "new"      *)
(* (written or copied by this run) or "cut" (created or truncated by a     *)
(* write or a copy that then failed).  A directory is the function from    *)
(* its file names.                                                         *)

SchemeFile == "selectors.scheme.json"

\* os.ReadDir lists by file name
DirOrder == <<"groups.json", "route.json", "selectors.json", SchemeFile, "servers.json">>

FileNames == Range(DirOrder)

NoDir == [exists |-> FALSE, files |-> [f \in FileNames |-> "absent"]]

\* os.MkdirAll
MkdirAll(dir) == [dir EXCEPT !.exists = TRUE]

\* os.WriteFile of this run's bytes
WriteFile(dir, name) == [dir EXCEPT !.files[name] = "new"]

\* os.WriteFile that fails: before it opened the file, or after
WriteFileFailed(dir, name, cut) ==
    IF cut THEN [dir EXCEPT !.files[name] = "cut"] ELSE dir

\* the names exportConfig copies, in the order it meets them
Exported(dir) ==
    SelectSeq(DirOrder, LAMBDA f : dir.files[f] # "absent" /\ f # SchemeFile)

\* exportConfig stopped after `done` whole copies; `cut` tells whether the
\* copy it failed in had already created its destination
CopyFiles(src, dst, done, cut) ==
    LET names == Exported(src) IN
    [dst EXCEPT !.exists = TRUE,
                !.files = [f \in FileNames |->
                    IF \E k \in 1..done : names[k] = f THEN "new"
                    ELSE IF cut /\ done < Len(names) /\ names[done + 1] = f THEN "cut"
                    ELSE @[f]]]

-----------------------------------------------------------------------------
(* The inputs.                                                             *)

Hosts == {<<"h">>, <<"g">>}

\* fragments: two of one region, and a label of three tokens whose region is
\* a label itself
Frags == {<<"a", " ", "x">>, <<"a", " ", "y">>, <<"a", " ", "x", " ", "z">>}

Trojan(host, port, frag) == Line("uri", "trojan", "p", host, port, "", "", frag)

PlainLines == {Trojan(h, <<"8">>, f) : h \in Hosts, f \in Frags}

\* lines that are skipped, and a respelling of h:8 with other field values,
\* an emoji and a run of spaces in its fragment
OddLines ==
    { Line("blank", "", "", <<>>, <<>>, "", "", <<>>),
      Line("malformed", "", "", <<>>, <<>>, "", "", <<>>),
      Line("uri", "vmess", "p", <<"h">>, <<"8">>, "", "", <<"a", " ", "x">>),
      Line("uri", "trojan", "p", <<"h">>, <<>>, "", "", <<"a", " ", "x">>),
      Line("uri", "trojan", "p", <<"h">>, <<"0">>, "", "", <<"a", " ", "x">>),
      Line("uri", "trojan", "q", <<"h">>, <<"0", "8">>, "1", "s",
           <<"*", "a", " ", " ", "x", " ">>) }

Lines == PlainLines \cup OddLines

SeqsUpTo(S, n) == UNION {[1..k -> S] : k \in 0..n}

Bodies == SeqsUpTo(Lines, MaxLines)

Direct == <<"d">>

\* a template of a selector that already names region a, and a raw entry
Templates ==
    { NoTemplate,
      TemplateOf(<<Entry("selector", "proxy", <<Direct, <<"a">>>>, "default"),
                   Entry("direct", "direct", <<>>, "none")>>) }

\* member lists of the merge specification
MemberLists ==
    { <<>>, <<<<"a">>>>, <<Direct, <<"a", " ", "x">>>>, <<Direct, Direct>>,
      <<<<"a">>, Direct, <<"a">>>> }

MergeEntries ==
    {Entry("selector", "proxy", m, "default") : m \in MemberLists}
        \cup {Entry("urltest", "auto", <<Direct>>, "none")}

MergeTemplates == {TemplateOf(es) : es \in SeqsUpTo(MergeEntries, MaxEntries)}

\* bodies whose region orders are <<>>, <<a>>, <<a x>>, <<a, a x>>, <<a x, a>>
MergeBodies ==
    { <<>>,
      <<Trojan(<<"h">>, <<"8">>, <<"a", " ", "x">>)>>,
      <<Trojan(<<"h">>, <<"8">>, <<"a", " ", "x", " ", "z">>)>>,
      <<Trojan(<<"h">>, <<"8">>, <<"a", " ", "x">>),
        Trojan(<<"g">>, <<"8">>, <<"a", " ", "x", " ", "z">>)>>,
      <<Trojan(<<"h">>, <<"8">>, <<"a", " ", "x", " ", "z">>),
        Trojan(<<"g">>, <<"8">>, <<"a", " ", "x">>)>> }

\* the working config area and the destination before the run: nothing on
\* a machine without a template, the previous run's files otherwise
ConfigBefore(tpl) ==
    IF ~tpl.exists THEN NoDir
    ELSE [exists |-> TRUE, files |-> [f \in FileNames |-> "old"]]

PublishedBefore(tpl) ==
    IF ~tpl.exists THEN NoDir
    ELSE [exists |-> TRUE,
          files |-> [f \in FileNames |-> IF f = SchemeFile THEN "absent" ELSE "old"]]

-----------------------------------------------------------------------------
(* The run.                                                                *)

InitWith(bodies, templates) ==
    /\ pc = "fetch"
    /\ cause = "none"
    /\ body \in bodies
    /\ template \in templates
    /\ results = <<>>
    /\ outbounds = <<>>
    /\ indexMap = EmptyMap
    /\ regionTags = EmptyMap
    /\ regionIndex = EmptyMap
    /\ regionOrder = <<>>
    /\ pending = {}
    /\ groupOutbounds = <<>>
    /\ selectors = <<>>
    /\ config = ConfigBefore(template)
    /\ published = PublishedBefore(template)

Init == InitWith(Bodies, Templates)

InitMerge == InitWith(MergeBodies, MergeTemplates)

Fatal(why) == pc' = "fatal" /\ cause' = why

\* FetchFail of a run that makes its config directory before it fetches
FetchFailAfterMkdir ==
    /\ pc = "fetch"
    /\ \E why \in {"env", "get", "status", "read", "base64"} : Fatal(why)
    /\ config' = MkdirAll(config)
    /\ UNCHANGED <<body, template, results, outbounds, indexMap, regionTags,
                   regionIndex, regionOrder, pending, groupOutbounds, selectors,
                   published>>

\* the environment variable is unset, the GET fails or times out, the status
\* is not 200, the body cannot be read, or it is not base64
FetchFail ==
    /\ pc = "fetch"
    /\ \E why \in {"env", "get", "status", "read", "base64"} : Fatal(why)
    /\ UNCHANGED <<body, template, results, outbounds, indexMap, regionTags,
                   regionIndex, regionOrder, pending, groupOutbounds, selectors,
                   config, published>>

\* the body is fetched, decoded and split into lines
FetchOk ==
    /\ pc = "fetch"
    /\ pc' = "parse"
    /\ UNCHANGED <<cause, body, template, results, outbounds, indexMap, regionTags,
                   regionIndex, regionOrder, pending, groupOutbounds, selectors,
                   config, published>>

\* one iteration of the loop over the lines
ParseLine ==
    /\ pc = "parse"
    /\ Len(results) < Len(body)
    /\ LET r == LineResult(body[Len(results) + 1])
           put == RegistryPut(outbounds, indexMap, r.ob)
       IN /\ results' = Append(results, r)
          /\ outbounds' = IF r.out = "record" THEN put.outbounds ELSE outbounds
          /\ indexMap' = IF r.out = "record" THEN put.indexMap ELSE indexMap
    /\ UNCHANGED <<pc, cause, body, template, regionTags, regionIndex, regionOrder,
                   pending, groupOutbounds, selectors, config, published>>

\* the loop over outbounds that classifies them; the range over regionTags
\* then has every region to visit
Classify ==
    /\ pc = "parse"
    /\ Len(results) = Len(body)
    /\ LET st == ClassifyFrom(outbounds, [regionTags |-> EmptyMap,
                                          regionIndex |-> EmptyMap,
                                          regionOrder |-> <<>>])
       IN /\ regionTags' = st.regionTags
          /\ regionIndex' = st.regionIndex
          /\ regionOrder' = st.regionOrder
          /\ pending' = DOMAIN st.regionTags
    /\ pc' = "collapse"
    /\ UNCHANGED <<cause, body, template, results, outbounds, indexMap,
                   groupOutbounds, selectors, config, published>>

\* one iteration of the range over the map regionTags, which Go visits in an
\* order of its own choosing
CollapseVisit ==
    /\ pc = "collapse"
    /\ \E region \in pending :
        LET tags == regionTags[region] IN
        /\ pending' = pending \ {region}
        /\ IF Len(tags) = 1
           THEN /\ outbounds' = RenameFirst(outbounds, tags[1], region)
                /\ regionTags' = [regionTags EXCEPT ![region][1] = region]
           ELSE UNCHANGED <<outbounds, regionTags>>
    /\ UNCHANGED <<pc, cause, body, template, results, indexMap, regionIndex,
                   regionOrder, groupOutbounds, selectors, config, published>>

\* config is made and config/servers.json written
WriteServers ==
    /\ pc = "collapse"
    /\ pending = {}
    /\ config' = WriteFile(MkdirAll(config), "servers.json")
    /\ pc' = "groups"
    /\ UNCHANGED <<cause, body, template, results, outbounds, indexMap, regionTags,
                   regionIndex, regionOrder, pending, groupOutbounds, selectors,
                   published>>

\* MkdirAll fails, or it succeeds and WriteFile fails
WriteServersFail ==
    /\ pc = "collapse"
    /\ pending = {}
    /\ \/ UNCHANGED config
       \/ \E cut \in BOOLEAN :
            config' = WriteFileFailed(MkdirAll(config), "servers.json", cut)
    /\ Fatal("servers")
    /\ UNCHANGED <<body, template, results, outbounds, indexMap, regionTags,
                   regionIndex, regionOrder, pending, groupOutbounds, selectors,
                   published>>

\* the groups are synthesized and config/groups.json written
WriteGroups ==
    /\ pc = "groups"
    /\ groupOutbounds' = SynthesizeGroups(regionOrder, regionTags)
    /\ config' = WriteFile(config, "groups.json")
    /\ pc' = "selectors"
    /\ UNCHANGED <<cause, body, template, results, outbounds, indexMap, regionTags,
                   regionIndex, regionOrder, pending, selectors, published>>

\* the groups are synthesized and WriteFile fails
WriteGroupsFail ==
    /\ pc = "groups"
    /\ groupOutbounds' = SynthesizeGroups(regionOrder, regionTags)
    /\ \E cut \in BOOLEAN : config' = WriteFileFailed(config, "groups.json", cut)
    /\ Fatal("groups")
    /\ UNCHANGED <<body, template, results, outbounds, indexMap, regionTags,
                   regionIndex, regionOrder, pending, selectors, published>>

\* the template is loaded and merged, config/selectors.json written
MergeTemplate ==
    /\ pc = "selectors"
    /\ selectors' = MergeSelectors(loadSelectors(template), regionOrder)
    /\ config' = WriteFile(config, "selectors.json")
    /\ pc' = "export"
    /\ UNCHANGED <<cause, body, template, results, outbounds, indexMap, regionTags,
                   regionIndex, regionOrder, pending, groupOutbounds, published>>

\* the template is there and cannot be read or decoded
LoadSelectorsFail ==
    /\ pc = "selectors"
    /\ template.exists
    /\ Fatal("template")
    /\ UNCHANGED <<body, template, results, outbounds, indexMap, regionTags,
                   regionIndex, regionOrder, pending, groupOutbounds, selectors,
                   config, published>>

\* the merge is done and WriteFile fails
WriteSelectorsFail ==
    /\ pc = "selectors"
    /\ selectors' = MergeSelectors(loadSelectors(template), regionOrder)
    /\ \E cut \in BOOLEAN : config' = WriteFileFailed(config, "selectors.json", cut)
    /\ Fatal("selectors")
    /\ UNCHANGED <<body, template, results, outbounds, indexMap, regionTags,
                   regionIndex, regionOrder, pending, groupOutbounds, published>>

\* exportConfig copies every file
Export ==
    /\ pc = "export"
    /\ published' = CopyFiles(config, published, Len(Exported(config)), FALSE)
    /\ pc' = "done"
    /\ UNCHANGED <<cause, body, template, results, outbounds, indexMap, regionTags,
                   regionIndex, regionOrder, pending, groupOutbounds, selectors,
                   config>>

\* exportConfig fails: in ReadDir or MkdirAll, or in the copy of a file
ExportFail ==
    /\ pc = "export"
    /\ \/ UNCHANGED published
       \/ \E done \in 0..(Len(Exported(config)) - 1), cut \in BOOLEAN :
            published' = CopyFiles(config, published, done, cut)
    /\ Fatal("export")
    /\ UNCHANGED <<body, template, results, outbounds, indexMap, regionTags,
                   regionIndex, regionOrder, pending, groupOutbounds, selectors,
                   config>>

Next ==
    \/ FetchFail
    \/ FetchOk
    \/ ParseLine
    \/ Classify
    \/ CollapseVisit
    \/ WriteServers
    \/ WriteServersFail
    \/ WriteGroups
    \/ WriteGroupsFail
    \/ MergeTemplate
    \/ LoadSelectorsFail
    \/ WriteSelectorsFail
    \/ Export
    \/ ExportFail

Spec == Init /\ [][Next]_vars

SpecMerge == InitMerge /\ [][Next]_vars

-----------------------------------------------------------------------------
(* Vocabulary of the properties.                                           *)

Min(S) == CHOOSE x \in S : \A y \in S : x <= y

Max(S) == CHOOSE x \in S : \A y \in S : x >= y

Count(x, seq) == Cardinality({k \in DOMAIN seq : seq[k] = x})

\* the records parsed so far, in input order
Accepted ==
    LET recs == SelectSeq(results, LAMBDA r : r.out = "record")
    IN [k \in DOMAIN recs |-> recs[k].ob]

Pair(ob) == <<ob.Server, ob.ServerPort>>

Occurrences(acc, pair) == {k \in DOMAIN acc : Pair(acc[k]) = pair}

\* the registry's records as they were parsed: at each position the last
\* parsed record of the position's (host, port)
AsParsed ==
    LET acc == Accepted
    IN [p \in DOMAIN outbounds |-> acc[Max(Occurrences(acc, Pair(outbounds[p])))]]

\* the region of each position, from its parsed label
RegionAt(parsed) == [p \in DOMAIN parsed |-> extractRegion(parsed[p].Tag)]

MembersOf(at, region) == {p \in DOMAIN at : at[p] = region}

\* the parsed labels of a region's members, in registry order
MemberLabels(parsed, at, region) ==
    LET ps == SelectSeq([p \in DOMAIN at |-> p], LAMBDA p : at[p] = region)
    IN [k \in DOMAIN ps |-> parsed[ps[k]].Tag]

MultiRegions(at) == {r \in Range(at) : Cardinality(MembersOf(at, r)) >= 2}

\* a region's place among the regions of two or more, by first member
Rank(at, multi, r) ==
    Cardinality({o \in multi : Min(MembersOf(at, o)) < Min(MembersOf(at, r))}) + 1

ParseOver == pc # "fetch" /\ ~(pc = "parse" /\ Len(results) < Len(body))
                /\ ~(pc = "fatal" /\ cause \in {"env", "get", "status", "read", "base64"})

Classified == ParseOver /\ pc # "parse"

Collapsed == Classified /\ pending = {}

Written == Collapsed /\ pc # "collapse" /\ ~(pc = "fatal" /\ cause = "servers")

Synthesized == Written /\ pc # "groups"

Merged == \/ pc \in {"export", "done"}
          \/ pc = "fatal" /\ cause \in {"selectors", "export"}

-----------------------------------------------------------------------------
(* C1: the registry holds exactly one record per distinct (host, port) of   *)
(* the lines parsed so far, at the position of the pair's first occurrence *)
(* and with the field values of its last occurrence; and no step of the    *)
(* run removes a record or moves one to another identity.                  *)

RegistryExact ==
    LET acc == Accepted
        parsed == AsParsed
    IN /\ \A p, q \in DOMAIN outbounds :
             Pair(outbounds[p]) = Pair(outbounds[q]) => p = q
       /\ {Pair(outbounds[p]) : p \in DOMAIN outbounds}
             = {Pair(acc[k]) : k \in DOMAIN acc}
       /\ \A p \in DOMAIN outbounds : outbounds[p] = parsed[p]
       /\ \A p, q \in DOMAIN outbounds :
             p < q => Min(Occurrences(acc, Pair(outbounds[p])))
                         < Min(Occurrences(acc, Pair(outbounds[q])))

NeverShrinks ==
    \A p \in DOMAIN outbounds :
        p \in DOMAIN outbounds' /\ Pair(outbounds'[p]) = Pair(outbounds[p])

\* C1: while lines are parsed the registry is exact, and no step shrinks it
C1_RegistryFirstPositionLastValue ==
    [](pc = "parse" => RegistryExact) /\ [][NeverShrinks]_vars

\* three lines parsed, the third replacing the first in place with other values
C1_Witness ==
    /\ pc = "parse"
    /\ Len(Accepted) = 3
    /\ Pair(Accepted[1]) = Pair(Accepted[3])
    /\ Pair(Accepted[1]) # Pair(Accepted[2])
    /\ Accepted[1] # Accepted[3]
    /\ Len(outbounds) = 2
    /\ outbounds[1] = Accepted[3]

-----------------------------------------------------------------------------
(* C2: once the post-step has visited every region, the sole member of a   *)
(* region of one has the region key as its label, every member of a region *)
(* of two or more keeps its parsed label, and no aggregate carries the     *)
(* identity of a region of one.                                            *)

C2_SingletonCollapsed ==
    Collapsed =>
        LET parsed == AsParsed
            at == RegionAt(parsed)
        IN /\ \A p \in DOMAIN outbounds :
                 outbounds[p].Tag = IF Cardinality(MembersOf(at, at[p])) = 1
                                    THEN at[p] ELSE parsed[p].Tag
           /\ \A g \in DOMAIN groupOutbounds, r \in Range(at) :
                 Cardinality(MembersOf(at, r)) = 1
                     => groupOutbounds[g].Tag \notin {r, r \o AutoSuffix}

-----------------------------------------------------------------------------
(* C3: the aggregates are, for the regions of two or more members in       *)
(* discovery order, the urltest "<region>-auto" over the member labels,    *)
(* not interrupting, then the selector "<region>" over "<region>-auto" and *)
(* the same labels, interrupting; and nothing else.                        *)

-----------------------------------------------------------------------------
(* C4: merging the region keys into the merged selectors once more changes *)
(* nothing, and a region key occurs in a merged member list as often as it *)
(* did in the template, or once when the template did not have it.         *)

C4_MergeIdempotent ==
    (Merged /\ template.exists) =>
        /\ MergeSelectors(selectors, regionOrder) = selectors
        /\ \A k \in DOMAIN selectors : \A r \in Range(regionOrder) :
              template.entries[k].type = "selector" =>
                  Count(r, selectors[k].outbounds) =
                      IF r \in Range(template.entries[k].outbounds)
                      THEN Count(r, template.entries[k].outbounds) ELSE 1

\* a merged selector that had one of two region keys already
C4_Witness ==
    /\ Merged
    /\ Len(regionOrder) = 2
    /\ \E k \in DOMAIN selectors :
          /\ ~selectors[k].raw
          /\ regionOrder[2] \in Range(template.entries[k].outbounds)
          /\ regionOrder[1] \notin Range(template.entries[k].outbounds)
          /\ Len(selectors[k].outbounds) = Len(template.entries[k].outbounds) + 1

-----------------------------------------------------------------------------
(* C5: a line that is no URI, or a URI of another scheme, is skipped and   *)
(* the run goes on: the registry, the regions and the aggregates are those *)
(* of the body without such lines.                                         *)

\* the lines C5 is about: url.Parse rejects them, or their scheme is not trojan
Rejected(line) ==
    /\ line.kind # "blank"
    /\ (line.kind = "malformed" \/ line.scheme # "trojan")

\* the registry the loop builds from a body
RECURSIVE RegistryOf(_, _)
RegistryOf(lines, reg) ==
    IF lines = <<>> THEN reg
    ELSE LET r == LineResult(Head(lines)) IN
         RegistryOf(Tail(lines),
                    IF r.out = "record"
                    THEN RegistryPut(reg.outbounds, reg.indexMap, r.ob)
                    ELSE reg)

WithoutRejected ==
    RegistryOf(SelectSeq(body, LAMBDA l : ~Rejected(l)),
               [outbounds |-> <<>>, indexMap |-> EmptyMap])

RegionsOf(obs) ==
    ClassifyFrom(obs, [regionTags |-> EmptyMap, regionIndex |-> EmptyMap,
                       regionOrder |-> <<>>])

\* C5: rejected lines are skipped and leave no trace in registry, regions or
\* aggregates
C5_BadLineSkipped ==
    /\ \A k \in DOMAIN results :
          Rejected(body[k]) => results[k].out \in {"failure", "ignored"}
    /\ pc = "fatal" => cause \notin {"parse", "line"}
    /\ (pc = "parse" /\ Len(results) = Len(body)) =>
          LET clean == WithoutRejected
          IN outbounds = clean.outbounds /\ indexMap = clean.indexMap
    /\ (Classified /\ (pending = DOMAIN regionTags \/ Synthesized)) =>
          LET regions == RegionsOf(WithoutRejected.outbounds)
          IN /\ regionOrder = regions.regionOrder
             /\ pending = DOMAIN regionTags => regionTags = regions.regionTags
             /\ Synthesized =>
                   groupOutbounds = SynthesizeGroups(regions.regionOrder,
                                                     regions.regionTags)

\* a run to the end whose body has a rejected line between two good ones
C5_Witness ==
    /\ pc = "done"
    /\ Len(body) = 3
    /\ Rejected(body[2])
    /\ Len(outbounds) = 2
    /\ Len(groupOutbounds) = 2

-----------------------------------------------------------------------------
(* C6: when the run dies in the fetch (no URL, GET failure or timeout, a   *)
(* status other than 200, an unreadable body, a body that is not base64),  *)
(* the working config area and the destination are as the run found them.  *)

C6_FetchFailureTouchesNothing ==
    (pc = "fatal" /\ cause \in {"env", "get", "status", "read", "base64"}) =>
        /\ config = ConfigBefore(template)
        /\ published = PublishedBefore(template)

\* the fetch got a bad status on a machine with no config directory yet
C6_Witness ==
    /\ pc = "fatal"
    /\ cause = "status"
    /\ ~config.exists
    /\ ~published.exists

-----------------------------------------------------------------------------
(* C7 as stated: in the records written to the servers file no two carry   *)
(* the same label, and every label occurs exactly once across the member   *)
(* lists of the regions.                                                   *)

\* how often label occurs across the member lists of the regions given
RECURSIVE CountIn(_, _)
CountIn(label, regions) ==
    IF regions = {} THEN 0
    ELSE LET r == CHOOSE x \in regions : TRUE IN
         Count(label, regionTags[r]) + CountIn(label, regions \ {r})

\* C7, as stated: labels are unique in the records and across the member lists
C7_LabelsUnique ==
    Written =>
        /\ \A p, q \in DOMAIN outbounds : outbounds[p].Tag = outbounds[q].Tag => p = q
        /\ \A p \in DOMAIN outbounds : CountIn(outbounds[p].Tag, DOMAIN regionTags) = 1

(* C7 as amended: in the records written to the servers file no two carry  *)
(* the same host and port, and every record is counted once across the     *)
(* member lists: every region's list is as long as the region has members. *)

\* C7, amended: identities are unique and every record is in one member list
C7_IdentitiesUnique ==
    Written =>
        LET at == RegionAt(AsParsed)
        IN /\ \A p, q \in DOMAIN outbounds :
                 Pair(outbounds[p]) = Pair(outbounds[q]) => p = q
           /\ DOMAIN regionTags = Range(at)
           /\ \A r \in DOMAIN regionTags :
                 Len(regionTags[r]) = Cardinality(MembersOf(at, r))

\* two written records of different endpoints with one label
C7_Witness ==
    /\ Written
    /\ \E p, q \in DOMAIN outbounds :
          /\ p # q
          /\ outbounds[p].Tag = outbounds[q].Tag
          /\ Pair(outbounds[p]) # Pair(outbounds[q])

-----------------------------------------------------------------------------
(* C8: every trojan line whose port is absent or is not a positive integer *)
(* is a failure of the parser, not the "ignored" outcome, and no record of *)
(* the registry has a port of 0 or less.                                   *)

PortPositive(port) ==
    /\ port # <<>>
    /\ \A c \in Range(port) : IsDigit(c)
    /\ Atoi(port).val > 0

\* C8: a trojan line without a positive port fails, and no port is 0 or less
C8_BadPortFails ==
    /\ \A k \in DOMAIN results :
          (body[k].kind = "uri" /\ body[k].scheme = "trojan" /\ ~PortPositive(body[k].port))
              => results[k].out = "failure"
    /\ \A p \in DOMAIN outbounds : outbounds[p].ServerPort > 0

-----------------------------------------------------------------------------
(* C9: a merged selector's member list is the template's list, unchanged,  *)
(* followed by the region keys the template's list did not have, in        *)
(* discovery order; it has every region key; the other entries are as in   *)
(* the template, and every entry is at its template position.              *)

C9_MergeKeepsPrefixAppendsNew ==
    (Merged /\ template.exists) =>
        /\ Len(selectors) = Len(template.entries)
        /\ \A k \in DOMAIN selectors :
              IF template.entries[k].type # "selector"
              THEN selectors[k] = template.entries[k]
              ELSE LET M == template.entries[k].outbounds
                       out == selectors[k].outbounds
                   IN /\ selectors[k].tag = template.entries[k].tag
                      /\ selectors[k].type = "selector"
                      /\ Len(out) >= Len(M)
                      /\ SubSeq(out, 1, Len(M)) = M
                      /\ SubSeq(out, Len(M) + 1, Len(out))
                            = SelectSeq(regionOrder, LAMBDA r : r \notin Range(M))
                      /\ Range(regionOrder) \subseteq Range(out)

\* a raw entry before a selector whose list repeats a region key
C9_Witness ==
    /\ Merged
    /\ Len(template.entries) = 2
    /\ Len(regionOrder) = 2
    /\ template.entries[1].type # "selector"
    /\ template.entries[2].type = "selector"
    /\ Count(regionOrder[2], template.entries[2].outbounds) = 2
    /\ Len(selectors[2].outbounds) = 4

-----------------------------------------------------------------------------
(* C10: the written records, the aggregates and the merged selectors are   *)
(* those of the run that visits the regions in discovery order, whatever   *)
(* order the post-step visits them in.                                     *)

\* the post-step visiting the regions in the order given
RECURSIVE CollapseInOrder(_, _, _)
CollapseInOrder(order, obs, tagsOf) ==
    IF order = <<>> THEN [outbounds |-> obs, regionTags |-> tagsOf]
    ELSE LET region == Head(order) IN
         IF Len(tagsOf[region]) = 1
         THEN CollapseInOrder(Tail(order),
                              RenameFirst(obs, tagsOf[region][1], region),
                              [tagsOf EXCEPT ![region][1] = region])
         ELSE CollapseInOrder(Tail(order), obs, tagsOf)

InDiscoveryOrder ==
    LET parsed == AsParsed
        st == RegionsOf(parsed)
    IN CollapseInOrder(st.regionOrder, parsed, st.regionTags)

\* C10: the outputs are those of the run that visits in discovery order
C10_Deterministic ==
    /\ Collapsed =>
          LET ref == InDiscoveryOrder
          IN /\ outbounds = ref.outbounds
             /\ regionTags = ref.regionTags
             /\ Synthesized =>
                   groupOutbounds = SynthesizeGroups(regionOrder, ref.regionTags)
    /\ Merged => selectors = MergeSelectors(loadSelectors(template), regionOrder)

====
